---- MODULE Spec2Model ----
(***************************************************************************)
(* DataQualityDashboard (src/data-quality-dashboard.py): the dashboard     *)
(* object with its DataFrame self.df and its dict self.metrics, the four   *)
(* public operations calculate_completeness, calculate_timeliness,         *)
(* calculate_consistency and generate_report, and the reports handed back  *)
(* to the caller.  Python objects are held by reference: dicts live in     *)
(* `heap` and are named by their index in it.                              *)
(*                                                                         *)
(* Floats are kept exact: a percentage (a / b) * 100 is the fraction       *)
(* [num |-> a * 100, den |-> b], and the float nan is a flag.  Timestamps  *)
(* are counted in ticks, TicksPerDay of them to a day.  Logging (lines     *)
(* 25, 50-58, 78, 134) writes to the log only and is not modelled.         *)
(***************************************************************************)
EXTENDS Integers, Sequences, FiniteSets

VARIABLES df, heap, reports, file, last

vars == <<df, heap, reports, file, last>>

\* ---------------------------------------------------------------- bounds

\* Largest number of records of a dataset of Spec.
MaxRows == 1
\* Largest number of records of a dataset of SpecMetrics.
MaxWideRows == 4
\* Largest number of reports the caller keeps.
MaxReports == 1
\* Resolution of the clock: ticks in one day.
TicksPerDay == 2

\* ---------------------------------------------------------------- values

\* A cell of the DataFrame: None / NaN / NaT, a str, or a pandas Timestamp.
Null == [kind |-> "null", s |-> "", t |-> 0]
Str(x) == [kind |-> "str", s |-> x, t |-> 0]
Ts(x) == [kind |-> "ts", s |-> "", t |-> x]

IsNull(v) == v.kind = "null"

\* The date strings pandas.to_datetime parses, in calendar order.
DateStrings == <<"2024-01-01", "2024-01-02">>

\* A string that is no date.
BadDate == "not a date"

Parsable(x) == \E i \in DOMAIN DateStrings : DateStrings[i] = x

\* The timestamp (in ticks) of a parsable date string: midnight of its day.
ParseDate(x) == (CHOOSE i \in DOMAIN DateStrings : DateStrings[i] = x) * TicksPerDay - TicksPerDay

\* Timedelta.days: whole days, rounded towards minus infinity.
Days(ticks) == ticks \div TicksPerDay

\* A Python dict is a function; the empty dict.
EmptyDict == [k \in {} |-> 0]

\* d[k] = v
Put(d, k, v) == [x \in (DOMAIN d) \cup {k} |-> IF x = k THEN v ELSE d[x]]

Range(s) == {s[i] : i \in DOMAIN s}

\* ------------------------------------------------------------- DataFrame

\* len(self.df)
Len_df(d) == d.nrows

\* name in self.df.columns
HasColumn(d, c) == c \in DOMAIN d.data

\* self.df[col], the Series: [dtype, values]
Column(d, c) == d.data[c]

\* Series.count(): the number of non-null values, summed along the Series.
RECURSIVE CountFrom(_, _)
CountFrom(values, i) ==
    IF i > Len(values) THEN 0
    ELSE (IF IsNull(values[i]) THEN 0 ELSE 1) + CountFrom(values, i + 1)

\* The slip of counting every value, null or not (Series.size for count()).
CountAll(series) == Len(series.values)

Count(series) == CountFrom(series.values, 1)

\* numpy: int64 / int.  0 / 0 is nan (a RuntimeWarning, no exception).
NaN == [nan |-> TRUE, num |-> 0, den |-> 1]
Fraction(a, b) == [nan |-> FALSE, num |-> a, den |-> b]
NumpyPercent(a, b) == IF b = 0 THEN NaN ELSE Fraction(a * 100, b)

\* ---------------------------------------------------------- value_counts

\* The distinct non-null values of a Series in order of first appearance.
RECURSIVE Distinct(_, _, _)
Distinct(values, i, seen) ==
    IF i > Len(values) THEN seen
    ELSE IF IsNull(values[i]) \/ values[i] \in Range(seen)
         THEN Distinct(values, i + 1, seen)
         ELSE Distinct(values, i + 1, Append(seen, values[i]))

RECURSIVE Occurrences(_, _, _)
Occurrences(values, v, i) ==
    IF i > Len(values) THEN 0
    ELSE (IF values[i] = v THEN 1 ELSE 0) + Occurrences(values, v, i + 1)

\* The slip of sorting <<value, count>> pairs by ascending count.
RECURSIVE SortAsc(_)
SortAsc(pairs) ==
    IF pairs = <<>> THEN <<>>
    ELSE LET best == CHOOSE i \in DOMAIN pairs :
                        /\ \A j \in DOMAIN pairs : pairs[j][2] >= pairs[i][2]
                        /\ \A j \in 1..(i - 1) : pairs[j][2] > pairs[i][2]
             rest == [j \in 1..(Len(pairs) - 1) |->
                        IF j < best THEN pairs[j] ELSE pairs[j + 1]]
         IN <<pairs[best]>> \o SortAsc(rest)

\* Sort <<value, count>> pairs by descending count, keeping the order of
\* equal counts (selection of the first maximum).
RECURSIVE SortDesc(_)
SortDesc(pairs) ==
    IF pairs = <<>> THEN <<>>
    ELSE LET best == CHOOSE i \in DOMAIN pairs :
                        /\ \A j \in DOMAIN pairs : pairs[j][2] <= pairs[i][2]
                        /\ \A j \in 1..(i - 1) : pairs[j][2] < pairs[i][2]
             rest == [j \in 1..(Len(pairs) - 1) |->
                        IF j < best THEN pairs[j] ELSE pairs[j + 1]]
         IN <<pairs[best]>> \o SortDesc(rest)

\* Series.value_counts(): nulls dropped, most frequent first.
ValueCounts(series) ==
    LET ds == Distinct(series.values, 1, <<>>)
    IN SortDesc([i \in DOMAIN ds |-> <<ds[i], Occurrences(series.values, ds[i], 1)>>])

\* How many entries of value_counts the report keeps.
TopN == 3

\* Series.head(n)
SeriesHead(s, n) == SubSeq(s, 1, IF Len(s) < n THEN Len(s) ELSE n)

\* Python: int / int * 100.  Division by zero raises ZeroDivisionError, which
\* the caller of PyPercent tests for first.
PyPercent(a, b) == Fraction(a * 100, b)

\* The slip of dividing by the number of non-null values.
UniqueRatioNonNull(d, series, value_counts) == PyPercent(Len(value_counts), Count(series))

\* line 106: (len(value_counts) / len(self.df)) * 100
UniqueRatio(d, series, value_counts) == PyPercent(Len(value_counts), Len_df(d))

\* ------------------------------------------------------------ operations
\* Each operation is a function of the dashboard's state (the DataFrame d and
\* the contents m of the dict self.metrics) to the state it leaves, the
\* exception it raises ("" for none) and, where it matters, what it returns.

\* lines 67-70: the loop of calculate_completeness over cols from position i.
RECURSIVE CompletenessLoop(_, _, _, _)
CompletenessLoop(d, cols, i, scores) ==
    IF i > Len(cols) THEN [exc |-> "", value |-> scores]
    ELSE IF ~HasColumn(d, cols[i]) THEN [exc |-> "KeyError", value |-> scores]
    ELSE CompletenessLoop(d, cols, i + 1,
            Put(scores, cols[i], NumpyPercent(Count(Column(d, cols[i])), Len_df(d))))

\* lines 61-73.  columns = <<>> stands for None and for an empty list.
CompletenessCall(d, m, columns) ==
    LET cols == IF columns = <<>> THEN d.columns ELSE columns
        r == CompletenessLoop(d, cols, 1, EmptyDict)
    IN IF r.exc # ""
       THEN [df |-> d, m |-> m, exc |-> r.exc]
       ELSE [df |-> d, m |-> Put(m, "completeness", r.value), exc |-> ""]

\* pandas.to_datetime(series) with errors='raise': a str that is no date
\* raises ValueError; nulls become NaT; the result has dtype datetime64.
CanConvert(series) ==
    \A i \in DOMAIN series.values :
        series.values[i].kind = "str" => Parsable(series.values[i].s)

ToDatetime(series) ==
    [dtype |-> "datetime64",
     values |-> [i \in DOMAIN series.values |->
                    LET v == series.values[i]
                    IN IF v.kind = "str" THEN Ts(ParseDate(v.s)) ELSE v]]

\* line 84: current_time - self.df[date_column], NaT dropped (mean, max and
\* min skip NaT): the ages in ticks of the non-null timestamps.
RECURSIVE Ages(_, _, _)
Ages(values, now, i) ==
    IF i > Len(values) THEN <<>>
    ELSE IF IsNull(values[i]) THEN Ages(values, now, i + 1)
    ELSE <<now - values[i].t>> \o Ages(values, now, i + 1)

RECURSIVE Sum(_, _)
Sum(s, i) == IF i > Len(s) THEN 0 ELSE s[i] + Sum(s, i + 1)

Max(s) == CHOOSE x \in Range(s) : \A y \in Range(s) : y <= x
Min(s) == CHOOSE x \in Range(s) : \A y \in Range(s) : x <= y

\* NaT.days is nan.
NaNDays == [nan |-> TRUE, days |-> 0]
WholeDays(ticks) == [nan |-> FALSE, days |-> Days(ticks)]

\* lines 86-90.  The mean of no Timedelta is NaT; the mean Timedelta is the
\* sum over the count, and its days are taken after averaging.
TimelinessMetrics(series, now) ==
    LET ages == Ages(series.values, now, 1)
    IN IF ages = <<>>
       THEN [average_age_days |-> NaNDays, oldest_record_days |-> NaNDays,
             newest_record_days |-> NaNDays]
       ELSE [average_age_days |-> [nan |-> FALSE,
                                   days |-> Sum(ages, 1) \div (Len(ages) * TicksPerDay)],
             oldest_record_days |-> WholeDays(Max(ages)),
             newest_record_days |-> WholeDays(Min(ages))]

\* lines 75-93.  ret is "None" when the column is missing.
TimelinessCall(d, m, date_column, now) ==
    IF ~HasColumn(d, date_column)
    THEN [df |-> d, m |-> m, exc |-> "", ret |-> "None"]
    ELSE IF ~CanConvert(Column(d, date_column))
    THEN [df |-> d, m |-> m, exc |-> "ValueError", ret |-> "raise"]
    ELSE LET converted == ToDatetime(Column(d, date_column))
             d2 == [d EXCEPT !.data[date_column] = converted]
         IN [df |-> d2,
             m |-> Put(m, "timeliness", TimelinessMetrics(converted, now)),
             exc |-> "", ret |-> "metrics"]

\* line 101: self.df.select_dtypes(include=['object']).columns
ObjectColumns(d) ==
    SelectSeq(d.columns, LAMBDA c : Column(d, c).dtype = "object")

\* lines 104-112: the loop of calculate_consistency over cols from position i.
RECURSIVE ConsistencyLoop(_, _, _, _)
ConsistencyLoop(d, cols, i, acc) ==
    IF i > Len(cols) THEN [exc |-> "", value |-> acc]
    ELSE IF ~HasColumn(d, cols[i]) THEN [exc |-> "KeyError", value |-> acc]
    ELSE IF Len_df(d) = 0 THEN [exc |-> "ZeroDivisionError", value |-> acc]
    ELSE LET value_counts == ValueCounts(Column(d, cols[i]))
         IN ConsistencyLoop(d, cols, i + 1,
                Put(acc, cols[i],
                    [unique_values |-> Len(value_counts),
                     unique_ratio |-> UniqueRatio(d, Column(d, cols[i]), value_counts),
                     most_common |-> SeriesHead(value_counts, TopN)]))

\* lines 95-115.  categorical_columns = <<>> stands for None and an empty list.
ConsistencyCall(d, m, categorical_columns) ==
    LET cols == IF categorical_columns = <<>> THEN ObjectColumns(d)
                ELSE categorical_columns
        r == ConsistencyLoop(d, cols, 1, EmptyDict)
    IN IF r.exc # ""
       THEN [df |-> d, m |-> m, exc |-> r.exc]
       ELSE [df |-> d, m |-> Put(m, "consistency", r.value), exc |-> ""]

\* The slip of recomputing on every call.
NeedsComputeAlways(m) == TRUE

\* line 119: not self.metrics
NeedsCompute(m) == DOMAIN m = {}

\* calculate_timeliness's default date_column (line 75).
DefaultDateColumn == "created_date"

\* lines 119-122: the three default-argument calls, each run only when the
\* one before it raised nothing; now is the clock calculate_timeliness reads.
ComputeIfEmpty(d, m, now) ==
    IF ~NeedsCompute(m) THEN [df |-> d, m |-> m, exc |-> ""]
    ELSE LET c1 == CompletenessCall(d, m, <<>>)
         IN IF c1.exc # "" THEN c1
            ELSE LET c2 == TimelinessCall(c1.df, c1.m, DefaultDateColumn, now)
                 IN IF c2.exc # "" THEN [df |-> c2.df, m |-> c2.m, exc |-> c2.exc]
                    ELSE ConsistencyCall(c2.df, c2.m, <<>>)

\* datetime.isoformat(): the date and the time of day, as text.
IsoFormat(t) == [date |-> t \div TicksPerDay, time |-> t % TicksPerDay]

\* json.dump takes str, int, float, bool and None as keys and raises
\* TypeError on any other: a Timestamp as a key of most_common.
Serializable(m) ==
    "consistency" \in DOMAIN m =>
        \A c \in DOMAIN m["consistency"] :
            \A i \in DOMAIN m["consistency"][c].most_common :
                m["consistency"][c].most_common[i][1].kind # "ts"

\* ----------------------------------------------------------------- state

\* self.metrics = {} (line 24): the dict object the dashboard holds for life.
self_metrics == 1

\* The order of the columns in a DataFrame.
ColumnOrder == <<"created_date", "status">>

\* The lists of columns a caller passes; <<>> is None, and "agency" is a
\* column of no dataset.
ColumnArgs ==
    {<<>>, <<"status">>, <<"created_date">>, <<"status", "agency">>}

\* The date columns a caller names.
DateColumnArgs == {DefaultDateColumn, "agency"}

\* What the clock reads: the middle of 2024-01-01 or of 2024-01-02.
Nows == {TicksPerDay \div 2, TicksPerDay + TicksPerDay \div 2}

CellsOf(c) ==
    IF c = "created_date"
    THEN {Null, Str(BadDate)} \cup {Str(DateStrings[i]) : i \in DOMAIN DateStrings}
    ELSE {Null, Str("Open")}

WideCells == {Null, Str("Open"), Str("Closed"), Str("Pending"), Str("Assigned")}

\* The columns pandas builds from str and None (lines 20, 54): dtype object.
\* Columns of numbers are not among the datasets.
SeriesOver(cells, n) ==
    {[dtype |-> "object", values |-> v] : v \in [1..n -> cells]}

Frame(n, data) ==
    [columns |-> SelectSeq(ColumnOrder, LAMBDA c : c \in DOMAIN data),
     nrows |-> n, data |-> data]

\* The datasets a dashboard of Spec is constructed on (lines 19-22).
Datasets ==
    UNION {
        {Frame(n, [c \in {"created_date", "status"} |->
                     IF c = "status" THEN st ELSE cd]) :
            cd \in SeriesOver(CellsOf("created_date"), n),
            st \in SeriesOver(CellsOf("status"), n)}
        \cup {Frame(n, [c \in {"status"} |-> st]) :
                st \in SeriesOver(CellsOf("status"), n)}
        \cup {Frame(n, [c \in {"created_date"} |-> cd]) :
                cd \in SeriesOver(CellsOf("created_date"), n)}
        : n \in 0..MaxRows}

\* The one-column datasets of SpecMetrics.
WideDatasets ==
    UNION {{Frame(n, [c \in {"status"} |-> st]) : st \in SeriesOver(WideCells, n)}
           : n \in 0..MaxWideRows}

NoCall == [op |-> "__init__", args |-> <<>>, outcome |-> "return", exc |-> ""]

\* The file at output_path: absent, holding a whole report, or cut short by
\* an exception of json.dump.  No operation reads it back, and the text in it
\* is not kept.
NoFile == "absent"

\* __init__ (lines 15-25)
InitOn(datasets) ==
    /\ df \in datasets
    /\ heap = <<EmptyDict>>
    /\ reports = <<>>
    /\ file = NoFile
    /\ last = NoCall

Init == InitOn(Datasets)

InitMetrics == InitOn(WideDatasets)

Outcome(op, args, exc) ==
    [op |-> op, args |-> args,
     outcome |-> IF exc = "" THEN "return" ELSE "raise", exc |-> exc]

\* lines 61-73
calculate_completeness(columns) ==
    LET r == CompletenessCall(df, heap[self_metrics], columns)
    IN /\ df' = r.df
       /\ heap' = [heap EXCEPT ![self_metrics] = r.m]
       /\ last' = Outcome("calculate_completeness", columns, r.exc)
       /\ UNCHANGED <<reports, file>>

\* lines 75-93
calculate_timeliness(date_column, now) ==
    LET r == TimelinessCall(df, heap[self_metrics], date_column, now)
    IN /\ df' = r.df
       /\ heap' = [heap EXCEPT ![self_metrics] = r.m]
       /\ last' = Outcome("calculate_timeliness", <<date_column>>, r.exc)
       /\ UNCHANGED <<reports, file>>

\* lines 95-115
calculate_consistency(categorical_columns) ==
    LET r == ConsistencyCall(df, heap[self_metrics], categorical_columns)
    IN /\ df' = r.df
       /\ heap' = [heap EXCEPT ![self_metrics] = r.m]
       /\ last' = Outcome("calculate_consistency", categorical_columns, r.exc)
       /\ UNCHANGED <<reports, file>>

\* lines 117-135.  The clock is read at line 82 and again at line 125, less
\* than a tick apart: both read now.
generate_report(now) ==
    LET g == ComputeIfEmpty(df, heap[self_metrics], now)
        report == [report_generated |-> IsoFormat(now),
                   dataset_size |-> Len_df(g.df),
                   metrics |-> self_metrics]
        exc == IF g.exc # "" THEN g.exc
               ELSE IF ~Serializable(g.m) THEN "TypeError" ELSE ""
    IN /\ Len(reports) < MaxReports
       /\ df' = g.df
       /\ heap' = [heap EXCEPT ![self_metrics] = g.m]
       /\ file' = IF g.exc # "" THEN file
                  ELSE IF exc # "" THEN "partial" ELSE "written"
       /\ reports' = IF exc = "" THEN Append(reports, report) ELSE reports
       /\ last' = Outcome("generate_report", <<>>, exc)

Next ==
    \/ \E columns \in ColumnArgs : calculate_completeness(columns)
    \/ \E date_column \in DateColumnArgs, now \in Nows :
          calculate_timeliness(date_column, now)
    \/ \E categorical_columns \in ColumnArgs :
          calculate_consistency(categorical_columns)
    \/ \E now \in Nows : generate_report(now)

Spec == Init /\ [][Next]_vars

\* The lists of columns a caller of SpecMetrics passes.
MetricsArgs == {<<>>, <<"status">>, <<"status", "agency">>}

NextMetrics ==
    \/ \E columns \in MetricsArgs : calculate_completeness(columns)
    \/ \E categorical_columns \in MetricsArgs :
          calculate_consistency(categorical_columns)

SpecMetrics == InitMetrics /\ [][NextMetrics]_vars

\* The datasets of SpecTimeliness: the date column alone.
DateDatasets ==
    UNION {{Frame(n, [c \in {"created_date"} |-> cd]) :
                cd \in SeriesOver(CellsOf("created_date"), n)}
           : n \in 0..MaxWideRows}

InitTimeliness == InitOn(DateDatasets)

NextTimeliness ==
    \E date_column \in DateColumnArgs, now \in Nows :
        calculate_timeliness(date_column, now)

SpecTimeliness == InitTimeliness /\ [][NextTimeliness]_vars

\* ---------------------------------------------------------------- claims

Stored == heap[self_metrics]
Returned(op) == last.op = op /\ last.outcome = "return"
MetricKeys == {"completeness", "timeliness", "consistency"}

\* What the caller reads in the report it was handed as the i-th.
ReportMetrics(i) == heap[reports[i].metrics]

\* The metrics three default-argument calls leave on dataset d at time now.
DefaultMetrics(d, now) ==
    LET c1 == CompletenessCall(d, EmptyDict, <<>>)
        c2 == TimelinessCall(c1.df, c1.m, DefaultDateColumn, now)
    IN ConsistencyCall(c2.df, c2.m, <<>>)

DefaultsComputable(d, now) ==
    /\ CompletenessCall(d, EmptyDict, <<>>).exc = ""
    /\ TimelinessCall(d, EmptyDict, DefaultDateColumn, now).exc = ""
    /\ DefaultMetrics(d, now).exc = ""

C2_ReportImmutable ==
    [][\A i \in DOMAIN reports :
          /\ reports'[i].dataset_size = reports[i].dataset_size
          /\ heap'[reports'[i].metrics] = heap[reports[i].metrics]]_vars

\* C3 as claimed: no operation changes the dataset, neither the values of a
\* column nor their type (stated for the datasets that have records).
C3_DatasetUnchanged == [][Len_df(df) > 0 => df' = df]_vars

\* C4 as claimed: every report returned has all three metrics.
C4_ReportHasAllMetrics ==
    \A i \in DOMAIN reports : DOMAIN ReportMetrics(i) = MetricKeys

\* The columns a call was asked for: args, or all of them for None.
Requested(args) == IF args = <<>> THEN DOMAIN df.data ELSE Range(args)

\* The non-null records of column c, counted as a set of positions.
Present(c) == {i \in 1..Len_df(df) : ~IsNull(Column(df, c).values[i])}

\* C5: on a non-empty dataset calculate_completeness returns, for every
\* requested column of the dataset, (non-null records / records) x 100, which
\* lies in [0, 100], is 100 when no record is null and 0 when all are.
C5_Completeness ==
    (last.op = "calculate_completeness" /\ Len_df(df) > 0
        /\ Requested(last.args) \subseteq DOMAIN df.data)
    => /\ last.outcome = "return"
       /\ DOMAIN Stored["completeness"] = Requested(last.args)
       /\ \A c \in Requested(last.args) :
            LET p == Stored["completeness"][c]
                n == Cardinality(Present(c))
            IN /\ ~p.nan
               /\ p.den > 0
               /\ p.num * Len_df(df) = n * 100 * p.den
               /\ 0 <= p.num /\ p.num <= 100 * p.den
               /\ (n = Len_df(df) => p.num = 100 * p.den)
               /\ (n = 0 => p.num = 0)

\* A completeness strictly between 0 and 100 was returned.
C5_Witness ==
    /\ Returned("calculate_completeness")
    /\ Len_df(df) = MaxWideRows
    /\ \E c \in Requested(last.args) :
          LET p == Stored["completeness"][c]
          IN 0 < p.num /\ p.num < 100 * p.den

\* C6 as claimed: on a dataset without records calculate_completeness gives
\* every requested column 0, or raises EmptyDatasetError; never nan.
C6_EmptyCompletenessDefined ==
    (last.op = "calculate_completeness" /\ Len_df(df) = 0
        /\ Requested(last.args) \subseteq DOMAIN df.data)
    => \/ /\ last.outcome = "return"
          /\ \A c \in Requested(last.args) :
                /\ ~Stored["completeness"][c].nan
                /\ Stored["completeness"][c].num = 0
       \/ last.outcome = "raise" /\ last.exc = "EmptyDatasetError"

\* Column c holds a str that is a date.
HasValidDate(c) ==
    \E i \in DOMAIN Column(df, c).values :
        /\ Column(df, c).values[i].kind = "str"
        /\ Parsable(Column(df, c).values[i].s)

\* C7 as claimed: calculate_timeliness on a date column holding a value that
\* is no date, beside records with valid dates, does not fail and stores the
\* timeliness of the valid ones.
C7_UnparsableDatesExcluded ==
    (last.op = "calculate_timeliness" /\ HasColumn(df, last.args[1])
        /\ ~CanConvert(Column(df, last.args[1]))
        /\ HasValidDate(last.args[1]))
    => /\ last.outcome = "return"
       /\ "timeliness" \in DOMAIN Stored
       /\ ~Stored["timeliness"].average_age_days.nan

\* C8 as claimed: calculate_consistency asked for a column the (non-empty)
\* dataset lacks skips it and returns the metrics of the requested columns
\* the dataset has.
C8_MissingColumnSkipped ==
    (last.op = "calculate_consistency" /\ Len_df(df) > 0
        /\ ~(Range(last.args) \subseteq DOMAIN df.data))
    => /\ last.outcome = "return"
       /\ DOMAIN Stored["consistency"] = Range(last.args) \cap DOMAIN df.data

\* C9: for every column calculate_consistency reports, unique_values is at
\* most the number of records and most_common has at most 3 entries, in
\* order of descending count.
C9_ConsistencyBounds ==
    Returned("calculate_consistency")
    => \A c \in DOMAIN Stored["consistency"] :
          LET r == Stored["consistency"][c]
          IN /\ r.unique_values <= Len_df(df)
             /\ Len(r.most_common) <= 3
             /\ \A i, j \in DOMAIN r.most_common :
                   i < j => r.most_common[i][2] >= r.most_common[j][2]

\* A column of more than 3 distinct values was reported with 3 of them.
C9_Witness ==
    /\ Returned("calculate_consistency")
    /\ \E c \in DOMAIN Stored["consistency"] :
          /\ Stored["consistency"][c].unique_values > 3
          /\ Len(Stored["consistency"][c].most_common) = 3

\* The distinct non-null values of column c.
DistinctValues(c) == {Column(df, c).values[i] : i \in Present(c)}

\* C10: unique_ratio is (distinct non-null values / records) x 100, the
\* records counted with their nulls, and null is no distinct value: a column
\* half null and half distinct values has unique_ratio 50.
C10_UniqueRatioOverTotal ==
    Returned("calculate_consistency")
    => \A c \in DOMAIN Stored["consistency"] :
          LET r == Stored["consistency"][c]
              k == Cardinality(DistinctValues(c))
          IN /\ r.unique_values = k
             /\ r.unique_ratio.num * Len_df(df) = k * 100 * r.unique_ratio.den
             /\ (2 * k = Len_df(df) /\ 2 * Cardinality(Present(c)) = Len_df(df)
                    => r.unique_ratio.num = 50 * r.unique_ratio.den)

\* A column half null and half distinct values was reported.
C10_Witness ==
    /\ Returned("calculate_consistency")
    /\ Len_df(df) = 2 * (MaxWideRows \div 2)
    /\ \E c \in DOMAIN Stored["consistency"] :
          /\ 2 * Cardinality(Present(c)) = Len_df(df)
          /\ 2 * Cardinality(DistinctValues(c)) = Len_df(df)
          /\ Stored["consistency"][c].unique_ratio.num
                = 50 * Stored["consistency"][c].unique_ratio.den
====
